---- MODULE Spec2Model ----
(***************************************************************************)
(* Rate-limit plugin: RateLimitPlugin.handleRequest (src/src/rate_limit.ts)*)
(* running on several service instances against one Redis store that       *)
(* executes scripts/lua_scripts/sliding_window_log.lua atomically.         *)
(*                                                                         *)
(* Time is counted in whole seconds.  `clock' is the store's (real) time;  *)
(* instance i reads a clock that is i seconds ahead of it.  A request      *)
(* computes `now' when handleRequest starts and the script runs at the     *)
(* store in the same or a later second.  A key whose time-to-live was set  *)
(* in second c for W seconds disappears at some moment of second c + W.    *)
(*                                                                         *)
(* req[r] also keeps, for the properties, what request r saw: the second   *)
(* and the position at which the store ran its script (at, ord), how many  *)
(* entries the key held then (raw) and how many of them were younger than  *)
(* the window (pre), the connection status read by the handler (seen), the *)
(* kind of value the store call resolved with (reply), the place where an  *)
(* exception was raised, if any (threw), whether the script added the      *)
(* entry of the request to the key (inserted), and the session and headers *)
(* the request came with.                                                  *)
(***************************************************************************)
EXTENDS Integers, Sequences, FiniteSets, TLC

VARIABLES config, status, fleet, clock, zset, expireAt, req, nextId, nEval,
          trace

vars == <<config, status, fleet, clock, zset, expireAt, req, nextId, nEval,
          trace>>

(***************************************************************************)
(* Bounds of the model.                                                    *)
(***************************************************************************)
MaxReqs   == 2      \* requests handled in one behaviour
MaxTime   == 2      \* last second of the store's clock
MaxLimit  == 2      \* default_limit ranges over 1..MaxLimit
MaxWindow == 2      \* time_window ranges over 1..MaxWindow
MaxSkew   == 1      \* the clock of instance i is i seconds ahead, i in 0..MaxSkew
MaxCalls  == 5      \* direct script calls made by the script harness

Requests  == 1..MaxReqs
Instances == 0..MaxSkew
Roles     == {"user", "admin"}

(* The header sets and session variables a caller may send. *)
HeaderSets  == {("x-user-id" :> "u1")}
SessionSets == {("user.id" :> "s1")}

(* request.session: a role and the session variables; a request body may   *)
(* come without the variables.                                             *)
Sessions ==
    {[role |-> ro, variables |-> v] : ro \in Roles, v \in SessionSets}
    \cup {[role |-> ro] : ro \in Roles}

NoTTL == -1         \* the key has no time-to-live (or does not exist)

(***************************************************************************)
(* RateLimitPlugin.buildRateLimitKey                                       *)
(***************************************************************************)
\* `${header}:${headers[header]}` without the || "": a missing value
\* prints as undefined
ValueOrEmpty_Undefined(rec, name) ==
    IF name \in DOMAIN rec THEN rec[name] ELSE "undefined"

\* headers[header] || "" : a missing or empty value reads as ""
ValueOrEmpty(rec, name) ==
    IF name \in DOMAIN rec /\ rec[name] # "" THEN rec[name] ELSE ""

\* parts.push(`${name}:${value}`) for every configured name, in order
RECURSIVE Parts(_, _)
Parts(names, rec) ==
    IF names = <<>> THEN <<>>
    ELSE <<Head(names) \o ":" \o ValueOrEmpty(rec, Head(names))>>
         \o Parts(Tail(names), rec)

\* Array.prototype.join(":")
RECURSIVE Join(_)
Join(parts) ==
    IF parts = <<>> THEN ""
    ELSE IF Len(parts) = 1 THEN parts[1]
    ELSE parts[1] \o ":" \o Join(Tail(parts))

\* the key that starts with the session role
buildRateLimitKey_WithRole(cfg, session, headers) ==
    Join(<<"role:" \o session.role>>
         \o Parts(cfg.from_headers, headers)
         \o Parts(cfg.from_session_variables, session.variables))

buildRateLimitKey(cfg, session, headers) ==
    Join(Parts(cfg.from_headers, headers)
         \o Parts(cfg.from_session_variables, session.variables))

\* request.session.variables[variable] (line 101) raises a TypeError when
\* the session has no variables and a session variable is configured
buildRateLimitKeyThrows(cfg, session, headers) ==
    cfg.from_session_variables # <<>> /\ "variables" \notin DOMAIN session

(***************************************************************************)
(* The policy read by the constructor.                                     *)
(***************************************************************************)
KeyConfig == [from_headers |-> <<"x-user-id">>,
              from_session_variables |-> <<"user.id">>]

Configs ==
    [default_limit : 1..MaxLimit,
     time_window : 1..MaxWindow,
     excluded_roles : {{"admin"}},
     from_headers : {KeyConfig.from_headers},
     from_session_variables : {KeyConfig.from_session_variables},
     fallback_mode : {"allow", "deny"}]

AllKeys == {buildRateLimitKey(KeyConfig, s, h) :
                s \in {x \in Sessions : "variables" \in DOMAIN x},
                h \in HeaderSets}

\* the key of a policy whose lists of key fields are both empty
GlobalKey == buildRateLimitKey([from_headers |-> <<>>,
                                from_session_variables |-> <<>>],
                               [role |-> "user", variables |-> <<>>],
                               <<>>)

\* the keys the store may hold
StoreKeys == AllKeys \cup {GlobalKey}

(***************************************************************************)
(* sliding_window_log.lua                                                  *)
(***************************************************************************)
\* ZREMRANGEBYSCORE with the upper bound taken as exclusive
ZREMRANGEBYSCORE_Exclusive(z, min, max) ==
    {e \in z : ~(min <= e.score /\ e.score < max)}

\* ZREMRANGEBYSCORE key min max: drops the members with min <= score <= max
ZREMRANGEBYSCORE(z, min, max) ==
    {e \in z : ~(min <= e.score /\ e.score <= max)}

\* ZADD key score member: a member already present only changes its score
ZADD(z, score, member) ==
    {e \in z : e.member # member} \cup {[member |-> member, score |-> score]}

\* ZCARD key
ZCARD(z) == Cardinality(z)

\* EXPIRE with a time-to-live one second short
EXPIRE_Short(z, seconds, storeTime) ==
    IF seconds - 1 <= 0 THEN [set |-> {}, ttl |-> NoTTL]
    ELSE [set |-> z, ttl |-> storeTime + seconds - 1]

\* EXPIRE key seconds, called in second storeTime of the store's clock on
\* the sorted set z (math.ceil of a whole number of seconds is that number):
\* the sorted set and the expiry it leaves.  A time-to-live that is not
\* positive deletes the key at once.
EXPIRE(z, seconds, storeTime) ==
    IF seconds <= 0 THEN [set |-> {}, ttl |-> NoTTL]
    ELSE [set |-> z, ttl |-> storeTime + seconds]

\* the script with ZCARD taken before ZREMRANGEBYSCORE
sliding_window_log_CountFirst(z, ttl, applicableLimit, currTime, prevTime, slidingWindow, member, storeTime) ==
    LET cardinality == ZCARD(z)
        purged      == ZREMRANGEBYSCORE(z, 0, prevTime)
    IN  IF cardinality < applicableLimit
        THEN LET left == EXPIRE(ZADD(purged, currTime, member),
                                slidingWindow, storeTime)
             IN  [set |-> left.set, ttl |-> left.ttl, result |-> cardinality]
        ELSE [set    |-> purged,
              ttl    |-> IF purged = {} THEN NoTTL ELSE ttl,
              result |-> cardinality]

\* the script with EXPIRE moved out of the branch
sliding_window_log_AlwaysExpire(z, ttl, applicableLimit, currTime, prevTime, slidingWindow, member, storeTime) ==
    LET purged      == ZREMRANGEBYSCORE(z, 0, prevTime)
        cardinality == ZCARD(purged)
    IN  IF cardinality < applicableLimit
        THEN LET left == EXPIRE(ZADD(purged, currTime, member),
                                slidingWindow, storeTime)
             IN  [set |-> left.set, ttl |-> left.ttl, result |-> cardinality]
        ELSE [set    |-> purged,
              ttl    |-> IF purged = {} THEN NoTTL
                         ELSE EXPIRE(purged, slidingWindow, storeTime).ttl,
              result |-> cardinality]

\* the script that removes the entries up to currTime
sliding_window_log_PurgeToNow(z, ttl, applicableLimit, currTime, prevTime, slidingWindow, member, storeTime) ==
    LET purged      == ZREMRANGEBYSCORE(z, 0, currTime)
        cardinality == ZCARD(purged)
    IN  IF cardinality < applicableLimit
        THEN LET left == EXPIRE(ZADD(purged, currTime, member),
                                slidingWindow, storeTime)
             IN  [set |-> left.set, ttl |-> left.ttl, result |-> cardinality]
        ELSE [set    |-> purged,
              ttl    |-> IF purged = {} THEN NoTTL ELSE ttl,
              result |-> cardinality]

\* the script that admits a call that finds applicableLimit entries
sliding_window_log_AtMost(z, ttl, applicableLimit, currTime, prevTime, slidingWindow, member, storeTime) ==
    LET purged      == ZREMRANGEBYSCORE(z, 0, prevTime)
        cardinality == ZCARD(purged)
    IN  IF cardinality <= applicableLimit
        THEN LET left == EXPIRE(ZADD(purged, currTime, member),
                                slidingWindow, storeTime)
             IN  [set |-> left.set, ttl |-> left.ttl, result |-> cardinality]
        ELSE [set    |-> purged,
              ttl    |-> IF purged = {} THEN NoTTL ELSE ttl,
              result |-> cardinality]

\* The script, run on the sorted set z of redisKey whose expiry is ttl:
\* the sorted set and the expiry it leaves, and the count it returns.
\* EXPIRE is called on the insert branch only; a sorted set left empty is
\* deleted by the store together with its time-to-live.
sliding_window_log(z, ttl, applicableLimit, currTime, prevTime, slidingWindow, member, storeTime) ==
    LET purged      == ZREMRANGEBYSCORE(z, 0, prevTime)
        cardinality == ZCARD(purged)
    IN  IF cardinality < applicableLimit
        THEN LET left == EXPIRE(ZADD(purged, currTime, member),
                                slidingWindow, storeTime)
             IN  [set |-> left.set, ttl |-> left.ttl, result |-> cardinality]
        ELSE [set    |-> purged,
              ttl    |-> IF purged = {} THEN NoTTL ELSE ttl,
              result |-> cardinality]

\* the script run on one sorted set shared by all keys
EVAL_OneSet(zs, ex, key, applicableLimit, currTime, prevTime, slidingWindow, member, storeTime) ==
    LET out == sliding_window_log(zs[key], ex[key], applicableLimit,
                   currTime, prevTime, slidingWindow, member, storeTime)
    IN  [zset     |-> [k \in DOMAIN zs |-> out.set],
         expireAt |-> [k \in DOMAIN ex |-> out.ttl],
         result   |-> out.result]

\* The command checkRateLimit of the client: the script run by the store
\* with KEYS[1] = key (numberOfKeys is 1), on the store whose sorted sets
\* are zs and whose expiries are ex.  The script names no other key.
EVAL(zs, ex, key, applicableLimit, currTime, prevTime, slidingWindow, member, storeTime) ==
    LET out == sliding_window_log(zs[key], ex[key], applicableLimit,
                   currTime, prevTime, slidingWindow, member, storeTime)
    IN  [zset     |-> [zs EXCEPT ![key] = out.set],
         expireAt |-> [ex EXCEPT ![key] = out.ttl],
         result   |-> out.result]

(***************************************************************************)
(* State                                                                   *)
(***************************************************************************)
NoHeaders == [n \in {} |-> ""]

NewReq == [pc |-> "new", inst |-> 0, role |-> "user", seen |-> "",
           session |-> [role |-> "user"], headers |-> NoHeaders,
           key |-> "", now |-> 0, windowStart |-> 0,
           at |-> 0, ord |-> 0, raw |-> 0, pre |-> 0,
           result |-> 0, statusCode |-> 0, code |-> "",
           reply |-> "", threw |-> "", inserted |-> FALSE, calls |-> 0,
           saw |-> {}, error |-> ""]

InitCommon ==
    /\ config \in Configs
    /\ status = [i \in Instances |-> "connecting"]
    /\ clock = 0
    /\ zset = [k \in AllKeys |-> {}]
    /\ expireAt = [k \in AllKeys |-> NoTTL]
    /\ req = [r \in Requests |-> NewReq]
    /\ nextId = 1
    /\ nEval = 0
    /\ trace = <<>>

\* One instance, whose clock is the store's clock.
Init == InitCommon /\ fleet = {0}

\* Several instances, each reading a clock of its own.
InitFleet == InitCommon /\ fleet = Instances

\* the role test that never matches
IsExcluded_Never(cfg, role) == FALSE

\* The value the awaited store call resolved with, as JavaScript sees it:
\* a number, null, or a string that is not a number.  The relational
\* operators convert their operands with ToNumber: null becomes 0, such a
\* string becomes NaN, and every comparison with NaN is false.
ReplyKinds == {"number", "null", "text"}

IsNaN(result) == result.kind = "text"

ToNumber(result) == IF result.kind = "number" THEN result.value ELSE 0

\* the comparison with > in place of >=
LimitExceeded_Strict(result, cfg) ==
    ~IsNaN(result) /\ ToNumber(result) > cfg.default_limit

\* the window start taken as if time_window were in milliseconds
WindowStart_Millis(now, cfg) == now - cfg.time_window * 1000

\* const windowStart = now - this.config.rate_limit.time_window (line 187)
WindowStart(now, cfg) == now - cfg.time_window

\* Math.floor(Date.now() / 1000) on instance i, whose clock is i seconds
\* ahead of the store's
Now(i) == clock + i

\* the status test that takes every status for ready
IsReady_Always(st) == TRUE

\* this.redis.status !== "ready" (line 139), negated
IsReady(st) == st = "ready"

\* this.config.rate_limit.excluded_roles.includes(request.session.role)
IsExcluded(cfg, role) == role \in cfg.excluded_roles

\* result >= this.config.rate_limit.default_limit (line 246)
LimitExceeded(result, cfg) ==
    ~IsNaN(result) /\ ToNumber(result) >= cfg.default_limit

\* the catch block that lets the request through
CatchResponse_Allow == [statusCode |-> 204, code |-> ""]

\* the answer of the catch block (lines 266-282)
CatchResponse == [statusCode |-> 500, code |-> "RATE_LIMIT_ERROR"]

\* fallback_mode === "allow" (lines 143-146) with the test always false
FallbackAllows_Never(cfg) == FALSE

\* this.config.rate_limit.unavailable_behavior.fallback_mode === "allow"
FallbackAllows(cfg) == cfg.fallback_mode = "allow"

\* the answer of the deny fallback with status 503
UnavailableResponse_503 == [statusCode |-> 503, code |-> "REDIS_UNAVAILABLE"]

\* the answer of the deny fallback (lines 161-169)
UnavailableResponse == [statusCode |-> 500, code |-> "REDIS_UNAVAILABLE"]

Finish(r, sc, code) ==
    [req EXCEPT ![r].pc = "done", ![r].statusCode = sc, ![r].code = code]

(***************************************************************************)
(* handleRequest up to the await of the store call (lines 128-221).        *)
(***************************************************************************)
HandleRequest(r, i, session, headers) ==
    /\ r = nextId
    /\ req[r].pc = "new"
    /\ nextId' = nextId + 1
    /\ i \in fleet
    /\ LET started == [req EXCEPT ![r].inst = i, ![r].role = session.role,
                                  ![r].session = session,
                                  ![r].headers = headers,
                                  ![r].seen = status[i]]
       IN
       IF ~IsReady(status[i])
       THEN IF FallbackAllows(config)
            THEN req' = [started EXCEPT ![r].pc = "done",
                                        ![r].statusCode = 204]
            ELSE req' = [started EXCEPT
                           ![r].pc = "done",
                           ![r].statusCode = UnavailableResponse.statusCode,
                           ![r].code = UnavailableResponse.code]
       ELSE IF IsExcluded(config, session.role)
       THEN req' = [started EXCEPT ![r].pc = "done", ![r].statusCode = 204]
       ELSE IF buildRateLimitKeyThrows(config, session, headers)
       THEN req' = [started EXCEPT ![r].pc = "done",
                                   ![r].threw = "buildRateLimitKey",
                                   ![r].statusCode = CatchResponse.statusCode,
                                   ![r].code = CatchResponse.code]
       ELSE req' = [started EXCEPT
                      ![r].pc = "calling",
                      ![r].calls = @ + 1,
                      ![r].key = buildRateLimitKey(config, session, headers),
                      ![r].now = Now(i),
                      ![r].windowStart = WindowStart(Now(i), config)]
    /\ UNCHANGED <<config, status, fleet, clock, zset, expireAt, nEval, trace>>

\* the request id without the UUID: the operation name alone
uniqueRequestId_OperationName(r) == 0

\* `${request.rawRequest.operationName || "anonymous"}-${randomUUID()}`
\* (line 190): an id no other request has
uniqueRequestId(r) == r

(***************************************************************************)
(* The store runs the script of one pending call, as one step.  The        *)
(* member is the request id: `${operationName}-${randomUUID()}` is new for *)
(* every request (line 190).                                               *)
(***************************************************************************)
checkRateLimit(r) ==
    /\ req[r].pc = "calling"
    /\ status[req[r].inst] = "ready"
    /\ LET k   == req[r].key
           id  == uniqueRequestId(r)
           out == EVAL(zset, expireAt, k,
                      config.default_limit, req[r].now, req[r].windowStart,
                      config.time_window, id, clock)
       IN /\ zset' = out.zset
          /\ expireAt' = out.expireAt
          /\ req' = [req EXCEPT ![r].pc = "returned",
                                ![r].reply = "number",
                                ![r].result = out.result,
                                ![r].inserted =
                                    [member |-> id, score |-> req[r].now]
                                      \in out.zset[k] \ zset[k],
                                ![r].at = clock,
                                ![r].ord = nEval + 1,
                                ![r].raw = Cardinality(zset[k]),
                                ![r].saw = zset[k],
                                ![r].pre = Cardinality(
                                    {e \in zset[k] : e.score >
                                       req[r].now - config.time_window})]
    /\ nEval' = nEval + 1
    /\ UNCHANGED <<config, status, fleet, clock, nextId, trace>>

\* a catch block that issues the call again and never gives up
CallFails_RetryForever(r) ==
    /\ req[r].pc = "calling"
    /\ req' = [req EXCEPT ![r].calls = IF @ < 2 THEN @ + 1 ELSE @]
    /\ UNCHANGED <<config, status, fleet, clock, zset, expireAt, nextId,
                   nEval, trace>>

\* a catch block that issues the call a second time before giving up
CallFails_Retry(r) ==
    /\ req[r].pc = "calling"
    /\ IF req[r].calls < 2
       THEN req' = [req EXCEPT ![r].calls = @ + 1]
       ELSE req' = [Finish(r, CatchResponse.statusCode, CatchResponse.code)
                       EXCEPT ![r].threw = "checkRateLimit"]
    /\ UNCHANGED <<config, status, fleet, clock, zset, expireAt, nextId,
                   nEval, trace>>

(***************************************************************************)
(* The store call rejects: the catch blocks (lines 222-227, 266-282).      *)
(* The catch blocks issue no call; req[r].calls counts the store calls     *)
(* the invocation issued.                                                  *)
(***************************************************************************)
CallFails(r) ==
    /\ req[r].pc = "calling"
    /\ req' = [Finish(r, CatchResponse.statusCode, CatchResponse.code)
                   EXCEPT ![r].threw = "checkRateLimit"]
    /\ UNCHANGED <<config, status, fleet, clock, zset, expireAt, nextId,
                   nEval, trace>>

\* a handler that keeps a count of its own: it lets one request through
\* per instance and denies the next whatever the store counted
HandleResult_LocalCount(r) ==
    /\ req[r].pc = "returned"
    /\ IF \/ LimitExceeded([kind |-> req[r].reply, value |-> req[r].result],
                           config)
          \/ \E q \in Requests \ {r} :
                /\ req[q].inst = req[r].inst
                /\ req[q].pc = "done"
                /\ req[q].ord > 0
                /\ req[q].statusCode = 204
       THEN req' = Finish(r, 400, "RATE_LIMIT_EXCEEDED")
       ELSE req' = Finish(r, 204, "")
    /\ UNCHANGED <<config, status, fleet, clock, zset, expireAt, nextId,
                   nEval, trace>>

(***************************************************************************)
(* handleRequest after the await (lines 232-265).                          *)
(***************************************************************************)
HandleResult(r) ==
    /\ req[r].pc = "returned"
    /\ IF LimitExceeded([kind |-> req[r].reply, value |-> req[r].result],
                        config)
       THEN req' = Finish(r, 400, "RATE_LIMIT_EXCEEDED")
       ELSE req' = Finish(r, 204, "")
    /\ UNCHANGED <<config, status, fleet, clock, zset, expireAt, nextId,
                   nEval, trace>>

(***************************************************************************)
(* The connection of instance i becomes ready, or is lost.                 *)
(***************************************************************************)
RedisReady(i) ==
    /\ i \in fleet
    /\ status[i] # "ready"
    /\ status' = [status EXCEPT ![i] = "ready"]
    /\ UNCHANGED <<config, fleet, clock, zset, expireAt, req, nextId, nEval,
                   trace>>

RedisLost(i) ==
    /\ status[i] = "ready"
    /\ status' = [status EXCEPT ![i] = "reconnecting"]
    /\ UNCHANGED <<config, fleet, clock, zset, expireAt, req, nextId, nEval,
                   trace>>

(***************************************************************************)
(* The store: a key whose time-to-live has run out is removed; the clock   *)
(* cannot pass the second of an expiry while the key is still there.       *)
(***************************************************************************)
Expire(k) ==
    /\ k \in DOMAIN zset
    /\ expireAt[k] # NoTTL
    /\ clock >= expireAt[k]
    /\ zset' = [zset EXCEPT ![k] = {}]
    /\ expireAt' = [expireAt EXCEPT ![k] = NoTTL]
    /\ UNCHANGED <<config, status, fleet, clock, req, nextId, nEval, trace>>

Tick ==
    /\ clock < MaxTime
    /\ \A k \in DOMAIN zset : expireAt[k] = NoTTL \/ expireAt[k] > clock
    /\ clock' = clock + 1
    /\ UNCHANGED <<config, status, fleet, zset, expireAt, req, nextId, nEval,
                   trace>>

Next ==
    \/ \E r \in Requests, i \in Instances, s \in Sessions, h \in HeaderSets :
          HandleRequest(r, i, s, h)
    \/ \E r \in Requests : checkRateLimit(r)
    \/ \E r \in Requests : CallFails(r)
    \/ \E r \in Requests : HandleResult(r)
    \/ \E i \in Instances : RedisReady(i)
    \/ \E i \in Instances : RedisLost(i)
    \/ \E k \in StoreKeys : Expire(k)
    \/ Tick

Spec == Init /\ [][Next]_vars

FleetSpec == InitFleet /\ [][Next]_vars

(***************************************************************************)
(* Spec with the scheduling the handler relies on: a store call that was   *)
(* issued resolves or rejects (the promise settles), and the continuation  *)
(* of a settled await runs.  Nothing is assumed of the connection, the     *)
(* clock or the arrival of requests.  The policy is the smallest one, with *)
(* either fallback mode.                                                   *)
(***************************************************************************)
InitLive ==
    /\ Init
    /\ config.default_limit = 1
    /\ config.time_window = 1

LiveSpec ==
    /\ InitLive
    /\ [][Next]_vars
    /\ \A r \in Requests : WF_vars(checkRateLimit(r) \/ CallFails(r))
    /\ \A r \in Requests : WF_vars(HandleResult(r))

(***************************************************************************)
(* A store call that resolves with a value that is not a count: the cast   *)
(* `as number' of line 232 checks nothing at run time.  The script of the  *)
(* repository always returns a count, so this step belongs to a            *)
(* specification of its own, in which the store may answer anything.       *)
(***************************************************************************)
MalformedReply(r, kind) ==
    /\ req[r].pc = "calling"
    /\ status[req[r].inst] = "ready"
    /\ kind \in ReplyKinds \ {"number"}
    /\ req' = [req EXCEPT ![r].pc = "returned", ![r].reply = kind]
    /\ UNCHANGED <<config, status, fleet, clock, zset, expireAt, nextId,
                   nEval, trace>>

NextReply ==
    \/ Next
    \/ \E r \in Requests, kind \in ReplyKinds : MalformedReply(r, kind)

ReplySpec == Init /\ [][NextReply]_vars

(***************************************************************************)
(* Two requests handled under a policy with one or two header names and    *)
(* none or one session variable, with header and session values that may   *)
(* be missing, empty or contain the delimiter.  No role is excluded, the   *)
(* connection is ready and the clock stands still: what varies is the key. *)
(***************************************************************************)
KeyValues == {"", "u1", ":x-client-id:"}

KeyHeaderNames == {"x-user-id", "x-client-id"}

\* the request and the headers of the plugin test
MockHeaders ==
    ("x-user-id" :> "test-user-123") @@ ("x-client-id" :> "test-client-456")

MockSession ==
    [role |-> "user", variables |-> ("user.id" :> "test-user-123")]

\* the header sets: each header is missing or has one of the values
KeyHeaderSets ==
    UNION {[names -> KeyValues] : names \in SUBSET KeyHeaderNames}
    \cup {MockHeaders}

KeySessions ==
    {[role |-> ro, variables |-> v] :
        ro \in Roles,
        v \in UNION {[names -> {"", "s1"}] : names \in SUBSET {"user.id"}}}
    \cup {MockSession}

KeyPolicies ==
    [default_limit : {1},
     time_window : {1},
     excluded_roles : {{}},
     from_headers : {<<"x-user-id">>, <<"x-user-id", "x-client-id">>},
     from_session_variables : {<<>>, <<"user.id">>},
     fallback_mode : {"deny"}]

KeysOf(cfg) ==
    {buildRateLimitKey(cfg, s, h) : s \in KeySessions, h \in KeyHeaderSets}

InitKey ==
    /\ config \in KeyPolicies
    /\ status = [i \in Instances |-> "ready"]
    /\ fleet = {0}
    /\ clock = 0
    /\ zset = [k \in KeysOf(config) |-> {}]
    /\ expireAt = [k \in KeysOf(config) |-> NoTTL]
    /\ req = [r \in Requests |-> NewReq]
    /\ nextId = 1
    /\ nEval = 0
    /\ trace = <<>>

NextKey ==
    \/ \E r \in {1, 2}, s \in KeySessions, h \in KeyHeaderSets :
          HandleRequest(r, 0, s, h)
    \/ \E r \in {1, 2} : checkRateLimit(r)
    \/ \E r \in {1, 2} : HandleResult(r)

KeySpec == InitKey /\ [][NextKey]_vars

(***************************************************************************)
(* The server (index.ts): every request passes the authentication          *)
(* middleware, which compares the header hasura-m-auth of the request with *)
(* the value of configuration.json and answers 400 itself when they        *)
(* differ; only then does the route POST /rate-limit call handleRequest,   *)
(* with the headers of the request.  The clock stands still.               *)
(***************************************************************************)
\* configuration.json, headers["hasura-m-auth"]
ServerConfig == [headers |-> ("hasura-m-auth" :> "your-auth-token")]

\* the middleware that lets every request through
authenticate_Any(headers) == TRUE

\* config.headers["hasura-m-auth"] === req.headers["hasura-m-auth"]; a
\* header that is missing reads as undefined and equals no string
authenticate(headers) ==
    /\ "hasura-m-auth" \in DOMAIN headers
    /\ headers["hasura-m-auth"] = ServerConfig.headers["hasura-m-auth"]

\* the headers of a request: with the right token, a wrong one, or none
ServerHeaderSets ==
    {h @@ a : h \in HeaderSets,
              a \in {NoHeaders,
                     ("hasura-m-auth" :> "your-auth-token"),
                     ("hasura-m-auth" :> "guess")}}

\* POST /rate-limit
PostRateLimit(r, i, session, headers) ==
    IF authenticate(headers)
    THEN HandleRequest(r, i, session, headers)
    ELSE /\ r = nextId
         /\ req[r].pc = "new"
         /\ nextId' = nextId + 1
         /\ i \in fleet
         /\ req' = [req EXCEPT ![r].pc = "rejected",
                               ![r].inst = i,
                               ![r].session = session,
                               ![r].headers = headers,
                               ![r].statusCode = 400,
                               ![r].error = "Unauthorized request"]
         /\ UNCHANGED <<config, status, fleet, clock, zset, expireAt, nEval,
                        trace>>

NextServer ==
    \/ \E r \in Requests, i \in Instances, s \in Sessions,
          h \in ServerHeaderSets : PostRateLimit(r, i, s, h)
    \/ \E r \in Requests : checkRateLimit(r)
    \/ \E r \in Requests : CallFails(r)
    \/ \E r \in Requests : HandleResult(r)
    \/ \E i \in Instances : RedisReady(i)

ServerSpec == Init /\ [][NextServer]_vars

(***************************************************************************)
(* Two requests handled under a policy with two session variables in       *)
(* either order.  The names of session variables are strings of the        *)
(* configuration (z.array(z.string())) and the variables of a session come *)
(* from the body of the request: neither is kept from holding ":".         *)
(***************************************************************************)
OrderPolicies ==
    [default_limit : {1},
     time_window : {1},
     excluded_roles : {{}},
     from_headers : {<<>>, <<"x-user-id">>},
     from_session_variables : {<<"user.id", "org.id">>,
                               <<"org.id", "user.id">>,
                               <<"user", "user:id">>,
                               <<"user:id", "user">>},
     fallback_mode : {"deny"}]

OrderSessions ==
    {[role |-> "user", variables |-> v] :
        v \in [{"user.id", "org.id"} -> {"", "u1"}]
               \cup [{"user", "user:id"} -> {"", "id:"}]}

OrderHeaderSets == {("x-user-id" :> "u1")}

InitOrder ==
    /\ config \in OrderPolicies
    /\ status = [i \in Instances |-> "ready"]
    /\ fleet = {0}
    /\ clock = 0
    /\ LET keys == {buildRateLimitKey(config, s, h) :
                       s \in OrderSessions, h \in OrderHeaderSets}
       IN  /\ zset = [k \in keys |-> {}]
           /\ expireAt = [k \in keys |-> NoTTL]
    /\ req = [r \in Requests |-> NewReq]
    /\ nextId = 1
    /\ nEval = 0
    /\ trace = <<>>

NextOrder ==
    \/ \E r \in {1, 2}, s \in OrderSessions, h \in OrderHeaderSets :
          HandleRequest(r, 0, s, h)
    \/ \E r \in {1, 2} : checkRateLimit(r)
    \/ \E r \in {1, 2} : HandleResult(r)

OrderSpec == InitOrder /\ [][NextOrder]_vars

(***************************************************************************)
(* A policy whose two lists of key fields are empty, and requests of two   *)
(* clients: the handler, the store and the clock as in Spec.               *)
(***************************************************************************)
GlobalConfigs ==
    [default_limit : 1..MaxLimit,
     time_window : 1..MaxWindow,
     excluded_roles : {{"admin"}},
     from_headers : {<<>>},
     from_session_variables : {<<>>},
     fallback_mode : {"deny"}]

GlobalHeaderSets == {("x-user-id" :> "u1"), ("x-user-id" :> "u2")}

InitGlobal ==
    /\ config \in GlobalConfigs
    /\ status = [i \in Instances |-> "connecting"]
    /\ fleet = {0}
    /\ clock = 0
    /\ zset = [k \in {GlobalKey} |-> {}]
    /\ expireAt = [k \in {GlobalKey} |-> NoTTL]
    /\ req = [r \in Requests |-> NewReq]
    /\ nextId = 1
    /\ nEval = 0
    /\ trace = <<>>

NextGlobal ==
    \/ Next
    \/ \E r \in Requests, i \in Instances, s \in Sessions,
          h \in GlobalHeaderSets : HandleRequest(r, i, s, h)

GlobalSpec == InitGlobal /\ [][NextGlobal]_vars

(***************************************************************************)
(* Start-up: the constructor reads rate-limit.json and passes it through   *)
(* rateLimitConfigSchema.parse, which throws on a value of the wrong type  *)
(* and otherwise returns the configuration the plugin keeps; the handler,  *)
(* the store and the clock are those of Spec.  A value of                  *)
(* the file is a number or something else (a string); z.number() accepts   *)
(* every number, z.union of the two literals accepts "allow" and "deny".   *)
(***************************************************************************)
RawValues(n) ==
    {[kind |-> "number", value |-> v] : v \in -1..n}
    \cup {[kind |-> "string", value |-> 0]}

RawConfigs ==
    [default_limit : RawValues(MaxLimit),
     time_window : RawValues(MaxWindow),
     fallback_mode : {"allow", "deny", "block"}]

\* rateLimitConfigSchema.parse(rawConfig) returns
rateLimitConfigSchema_accepts(rawConfig) ==
    /\ rawConfig.default_limit.kind = "number"
    /\ rawConfig.time_window.kind = "number"
    /\ rawConfig.fallback_mode \in {"allow", "deny"}

\* what rateLimitConfigSchema.parse(rawConfig) returns
rateLimitConfigSchema_parse(rawConfig) ==
    [default_limit |-> rawConfig.default_limit.value,
     time_window |-> rawConfig.time_window.value,
     excluded_roles |-> {"admin"},
     from_headers |-> KeyConfig.from_headers,
     from_session_variables |-> KeyConfig.from_session_variables,
     fallback_mode |-> rawConfig.fallback_mode]

\* the constructor keeps what the parser returns; a file the parser rejects
\* ends the process before any request is handled
InitLoad ==
    /\ config \in {rateLimitConfigSchema_parse(rawConfig) :
                      rawConfig \in {c \in RawConfigs :
                                       rateLimitConfigSchema_accepts(c)}}
    /\ status = [i \in Instances |-> "connecting"]
    /\ fleet = {0}
    /\ clock = 0
    /\ zset = [k \in AllKeys |-> {}]
    /\ expireAt = [k \in AllKeys |-> NoTTL]
    /\ req = [r \in Requests |-> NewReq]
    /\ nextId = 1
    /\ nEval = 0
    /\ trace = <<>>

LoadSpec == InitLoad /\ [][Next]_vars

(***************************************************************************)
(* The script called directly, one call after the other, as the tests of   *)
(* sliding-window-log.test.ts do: checkRateLimit(key, limit, currentTime,  *)
(* prevTime, window, id) with prevTime = currentTime - window and a new id *)
(* for each call.  The calls follow each other within the same second of   *)
(* the store's clock, whatever times they pass.                            *)
(***************************************************************************)
ScenarioLimit  == 3
ScenarioWindow == 60

\* the times a call may pass as currentTime
ScriptTimes == {0, 1, ScenarioWindow, ScenarioWindow + 1}

ScriptKey == CHOOSE k \in AllKeys : TRUE

ScriptConfigs ==
    [default_limit : 1..ScenarioLimit,
     time_window : {1, ScenarioWindow},
     excluded_roles : {{"admin"}},
     from_headers : {KeyConfig.from_headers},
     from_session_variables : {KeyConfig.from_session_variables},
     fallback_mode : {"deny"}]

InitScript ==
    /\ config \in ScriptConfigs
    /\ status = [i \in Instances |-> "ready"]
    /\ fleet = {0}
    /\ clock = 0
    /\ zset = [k \in AllKeys |-> {}]
    /\ expireAt = [k \in AllKeys |-> NoTTL]
    /\ req = [r \in Requests |-> NewReq]
    /\ nextId = 1
    /\ nEval = 0
    /\ trace = <<>>

ScriptCall(currentTime) ==
    /\ Len(trace) < MaxCalls
    /\ LET k        == ScriptKey
           prevTime == currentTime - config.time_window
           id       == Len(trace) + 1
           out      == sliding_window_log(zset[k], expireAt[k],
                           config.default_limit, currentTime, prevTime,
                           config.time_window, id, clock)
       IN /\ zset' = [zset EXCEPT ![k] = out.set]
          /\ expireAt' = [expireAt EXCEPT ![k] = out.ttl]
          /\ trace' = Append(trace,
                 [now    |-> currentTime,
                  pre    |-> Cardinality({e \in zset[k] : e.score >
                                 currentTime - config.time_window}),
                  result |-> out.result])
    /\ UNCHANGED <<config, status, fleet, clock, req, nextId, nEval>>

NextScript == \E t \in ScriptTimes : ScriptCall(t)

ScriptSpec == InitScript /\ [][NextScript]_vars

(***************************************************************************)
(* Vocabulary of the properties.                                           *)
(***************************************************************************)
Limit  == config.default_limit
Window == config.time_window

\* the store ran the script of request r
Evaluated(r) == req[r].ord > 0

\* the script of request r inserted its entry
Recorded(r) == Evaluated(r) /\ req[r].result < Limit

Done(r) == req[r].pc = "done"

Allowed(r) == Done(r) /\ req[r].statusCode = 204 /\ req[r].code = ""

Denied(r) == /\ Done(r)
             /\ req[r].statusCode = 400
             /\ req[r].code = "RATE_LIMIT_EXCEEDED"

\* the evaluations of r1's key from r1 on, up to and including r
RunUpTo(r1, r) ==
    {q \in Requests : /\ Evaluated(q)
                      /\ req[q].key = req[r1].key
                      /\ req[r1].ord <= req[q].ord
                      /\ req[q].ord <= req[r].ord}

\* q is made and evaluated within the window that r1 opens
InWindowOf(r1, q) ==
    /\ req[r1].now <= req[q].now
    /\ req[q].now < req[r1].now + Window
    /\ req[q].at < req[r1].now + Window

Max(S) == CHOOSE x \in S : \A y \in S : y <= x

\* the second of the store's clock in which request r computed `now'
RealTime(r) == req[r].now - req[r].inst

Times == 0..(MaxTime + MaxSkew)

C2_SameNowAtMostLimit ==
    \A k \in AllKeys :
        LET S == {r \in Requests : Evaluated(r) /\ req[r].key = k}
        IN  (\A a, b \in S : req[a].now = req[b].now)
            => Cardinality({r \in S : Recorded(r)}) <= Limit

(***************************************************************************)
(* C3: when the evaluations of a key come with non-decreasing `now', the   *)
(* admitted requests of the key whose timestamp lies in (t - window, t]    *)
(* number at most `limit', for every t.                                    *)
(***************************************************************************)
C3_TrailingWindow ==
    \A k \in AllKeys :
        LET S == {r \in Requests : Evaluated(r) /\ req[r].key = k}
        IN  (\A a, b \in S : req[a].ord <= req[b].ord
                               => req[a].now <= req[b].now)
            => \A t \in Times :
                 Cardinality({r \in S : /\ Recorded(r)
                                        /\ t - Window < req[r].now
                                        /\ req[r].now <= t}) <= Limit

(***************************************************************************)
(* C4: with instances that each read their own clock, the requests         *)
(* admitted for a key within any interval of window_seconds of real time   *)
(* number at most `limit'.                                                 *)
(***************************************************************************)
C4_FleetRealTimeWindow ==
    \A k \in AllKeys : \A t \in Times :
        Cardinality({r \in Requests : /\ Recorded(r)
                                      /\ req[r].key = k
                                      /\ t - Window < RealTime(r)
                                      /\ RealTime(r) <= t}) <= Limit

(***************************************************************************)
(* C5: every call of the script returns the number of entries that were    *)
(* under the key before the call with a timestamp > now - window_seconds   *)
(* (the entry the call inserts is not counted); with limit 3 and window    *)
(* 60, calls at t = 0, 0, 0, 0, 61 return 0, 1, 2, 3, 0.                   *)
(***************************************************************************)
ScenarioTimes   == <<0, 0, 0, 0, ScenarioWindow + 1>>
ScenarioResults == <<0, 1, 2, 3, 0>>

C5_ObservedCount ==
    /\ \A i \in 1..Len(trace) : trace[i].result = trace[i].pre
    /\ ( /\ Limit = ScenarioLimit
         /\ Window = ScenarioWindow
         /\ Len(trace) <= Len(ScenarioTimes)
         /\ \A i \in 1..Len(trace) : trace[i].now = ScenarioTimes[i] )
       => \A i \in 1..Len(trace) : trace[i].result = ScenarioResults[i]

C5_Witness ==
    /\ Limit = ScenarioLimit
    /\ Window = ScenarioWindow
    /\ Len(trace) = Len(ScenarioTimes)
    /\ \A i \in 1..Len(trace) : /\ trace[i].now = ScenarioTimes[i]
                                /\ trace[i].result = ScenarioResults[i]

(***************************************************************************)
(* C6: an evaluation whose `now' is more than window_seconds after the     *)
(* timestamp of the last admitted request of the key (the admitted request *)
(* with the latest timestamp) returns 0 and is answered 204, however many  *)
(* entries the key held.                                                   *)
(***************************************************************************)
AdmittedBefore(r) ==
    {q \in Requests : /\ Recorded(q)
                      /\ req[q].key = req[r].key
                      /\ req[q].ord < req[r].ord}

C6_ExpiryResets ==
    \A r \in Requests :
        ( /\ Evaluated(r)
          /\ AdmittedBefore(r) # {}
          /\ req[r].now >
               Max({req[q].now : q \in AdmittedBefore(r)}) + Window )
        => /\ req[r].result = 0
           /\ Done(r) => Allowed(r)

\* the key still held an entry when the late evaluation came
C6_Witness ==
    \E r \in Requests :
        /\ Evaluated(r)
        /\ AdmittedBefore(r) # {}
        /\ req[r].now > Max({req[q].now : q \in AdmittedBefore(r)}) + Window
        /\ req[r].raw > 0
        /\ Allowed(r)

(***************************************************************************)
(* C7: an evaluation at `now' removes, and does not count, every entry     *)
(* with timestamp <= now - window_seconds, and keeps and counts every      *)
(* entry with timestamp in now - window_seconds + 1 .. now.                *)
(***************************************************************************)
C7_WindowBoundaries ==
    [][ \A r \in Requests :
          (req[r].pc = "calling" /\ req'[r].pc = "returned")
          => LET k   == req[r].key
                 now == req[r].now
                 old == {e \in zset[k] : e.score <= now - Window}
                 kept == {e \in zset[k] : /\ now - Window + 1 <= e.score
                                         /\ e.score <= now}
                 late == {e \in zset[k] : e.score > now}
             IN  /\ old \cap zset'[k] = {}
                 /\ kept \subseteq zset'[k]
                 /\ req'[r].result = Cardinality(kept) + Cardinality(late)
      ]_vars

\* an evaluation found, and removed, an entry exactly at now - window
C7_Witness ==
    \E r \in Requests :
        /\ Evaluated(r)
        /\ req[r].raw = 1
        /\ req[r].pre = 0
        /\ req[r].result = 0
        /\ \E q \in AdmittedBefore(r) : req[q].now = req[r].now - Window

(***************************************************************************)
(* C8: a denied evaluation (observed_count >= limit) inserts nothing and   *)
(* leaves the time-to-live of the key as it was; it removes at most        *)
(* entries that are already expired, so the unexpired entries of the key   *)
(* are the same after the call as before.                                  *)
(***************************************************************************)
C8_DeniedWritesNothing ==
    [][ \A r \in Requests :
          ( /\ req[r].pc = "calling" /\ req'[r].pc = "returned"
            /\ req'[r].result >= Limit )
          => LET k   == req[r].key
                 now == req[r].now
             IN  /\ zset'[k] \subseteq zset[k]
                 /\ \A e \in zset[k] \ zset'[k] : e.score <= now - Window
                 /\ {e \in zset'[k] : e.score > now - Window}
                      = {e \in zset[k] : e.score > now - Window}
                 /\ expireAt'[k] = expireAt[k]
                 /\ \A j \in AllKeys \ {k} : /\ zset'[j] = zset[j]
                                             /\ expireAt'[j] = expireAt[j]
      ]_vars

\* an evaluation denied in a later second than the one that set the
\* time-to-live of the key
C8_Witness ==
    \E r \in Requests :
        /\ Evaluated(r)
        /\ req[r].result >= Limit
        /\ AdmittedBefore(r) # {}
        /\ \A q \in AdmittedBefore(r) : req[q].at < req[r].at
        /\ req[r].statusCode = 400

(***************************************************************************)
(* C9: a request that reaches the store and gets a count back is answered  *)
(* 400 with code RATE_LIMIT_EXCEEDED exactly when the count is >= limit,   *)
(* and 204 exactly when the count is < limit.                              *)
(***************************************************************************)
C9_DecisionFromCount ==
    \A r \in Requests :
        (Evaluated(r) /\ Done(r))
        => /\ Denied(r) <=> req[r].result >= Limit
           /\ req[r].statusCode = 400 <=> req[r].result >= Limit
           /\ Allowed(r) <=> req[r].result < Limit
           /\ req[r].statusCode = 204 <=> req[r].result < Limit

\* one request answered at count = limit - 1 and one at count = limit
C9_Witness ==
    \E a, b \in Requests :
        /\ Evaluated(a) /\ Allowed(a) /\ req[a].result = Limit - 1
        /\ Evaluated(b) /\ Denied(b) /\ req[b].result = Limit

Started(r) == req[r].pc = "new" /\ req'[r].pc # "new"

C11_ExcludedMakesNoStoreCall ==
    [][ \A r \in Requests :
          ( /\ Started(r)
            /\ req'[r].seen = "ready"
            /\ req'[r].role \in config.excluded_roles )
          => /\ req'[r].pc = "done"
             /\ req'[r].statusCode = 204
             /\ req'[r].key = ""
             /\ req'[r].ord = 0
             /\ zset' = zset
             /\ expireAt' = expireAt
             /\ nEval' = nEval
      ]_vars

\* an excluded request went through and the request after it was the
\* first one the key recorded
C11_Witness ==
    \E r, q \in Requests :
        /\ r < q
        /\ req[r].role \in config.excluded_roles
        /\ req[r].seen = "ready"
        /\ Allowed(r)
        /\ req[r].key = ""
        /\ Evaluated(q)
        /\ req[q].raw = 0
        /\ req[q].result = 0

(***************************************************************************)
(* C12: a request that finds the connection in a status other than ready   *)
(* is decided by fallback_mode alone, whatever its role, headers and       *)
(* session: 204 when fallback_mode is allow, code REDIS_UNAVAILABLE when   *)
(* it is deny; a request that finds the status ready is never answered     *)
(* REDIS_UNAVAILABLE.                                                      *)
(***************************************************************************)
C12_FallbackDecides ==
    \A r \in Requests :
        req[r].pc # "new"
        => IF req[r].seen # "ready"
           THEN /\ Done(r)
                /\ IF config.fallback_mode = "allow"
                   THEN Allowed(r)
                   ELSE /\ req[r].code = "REDIS_UNAVAILABLE"
                        /\ req[r].statusCode # 204
           ELSE req[r].code # "REDIS_UNAVAILABLE"

\* an excluded role refused after the connection was lost, and a request
\* served while it was ready
C12_Witness ==
    \E r, q \in Requests :
        /\ req[r].seen = "reconnecting"
        /\ req[r].role \in config.excluded_roles
        /\ req[r].code = "REDIS_UNAVAILABLE"
        /\ req[q].seen = "ready"
        /\ Done(q)

(***************************************************************************)
(* C13: a request that finds the connection in a status other than ready   *)
(* is answered in that same step: no key is built, no script is run, and   *)
(* the entries and the time-to-live of every key stay as they were, under  *)
(* both fallback modes.                                                    *)
(***************************************************************************)
C13_UnavailableMakesNoStoreCall ==
    [][ \A r \in Requests :
          (Started(r) /\ req'[r].seen # "ready")
          => /\ req'[r].pc = "done"
             /\ req'[r].key = ""
             /\ req'[r].ord = 0
             /\ zset' = zset
             /\ expireAt' = expireAt
             /\ nEval' = nEval
      ]_vars

\* a request was answered by the fallback while the store held an entry,
\* which is still there
C13_Witness ==
    \E r, q \in Requests :
        /\ q < r
        /\ Recorded(q)
        /\ req[r].seen # "ready"
        /\ Done(r)
        /\ req[r].key = ""
        /\ \E e \in zset[req[q].key] : e.member = q

C15_ExceptionsCaught ==
    \A r \in Requests :
        /\ req[r].threw # ""
           => /\ Done(r)
              /\ req[r].statusCode = 500
              /\ req[r].code = "RATE_LIMIT_ERROR"
              /\ ~Allowed(r)
        /\ req[r].pc \in {"new", "calling", "returned", "done"}
        /\ Done(r) => req[r].statusCode \in {204, 400, 500}

\* one request failed in the key builder and one in the store call
C15_Witness ==
    \E r, q \in Requests :
        /\ req[r].threw = "buildRateLimitKey"
        /\ req[q].threw = "checkRateLimit"
        /\ req[r].code = "RATE_LIMIT_ERROR"
        /\ req[q].code = "RATE_LIMIT_ERROR"

(***************************************************************************)
(* C16: a store call that resolves, on a ready connection, with a value    *)
(* that is not a count (null, a string that is not a number) is answered   *)
(* 500 RATE_LIMIT_ERROR and never 204.                                     *)
(***************************************************************************)
C16_MalformedReplyIsError ==
    \A r \in Requests :
        (Done(r) /\ req[r].reply \in ReplyKinds \ {"number"})
        => /\ req[r].statusCode = 500
           /\ req[r].code = "RATE_LIMIT_ERROR"
           /\ ~Allowed(r)

(***************************************************************************)
(* The key as the contract of the key builder words it: the part           *)
(* "<name>:<value>" for each configured header name in configured order,   *)
(* then for each configured session variable, the value being empty when   *)
(* the field is missing, and all parts joined with ":".                    *)
(***************************************************************************)
FieldValue(rec, name) == IF name \in DOMAIN rec THEN rec[name] ELSE ""

DescribedParts(cfg, session, headers) ==
    LET nh == Len(cfg.from_headers)
        ns == Len(cfg.from_session_variables)
    IN  [i \in 1..(nh + ns) |->
           IF i <= nh
           THEN cfg.from_headers[i] \o ":"
                  \o FieldValue(headers, cfg.from_headers[i])
           ELSE cfg.from_session_variables[i - nh] \o ":"
                  \o FieldValue(session.variables,
                                cfg.from_session_variables[i - nh])]

RECURSIVE JoinedFrom(_, _)
JoinedFrom(parts, i) ==
    IF i > Len(parts) THEN ""
    ELSE (IF i > 1 THEN ":" ELSE "") \o parts[i] \o JoinedFrom(parts, i + 1)

DescribedKey(cfg, session, headers) ==
    JoinedFrom(DescribedParts(cfg, session, headers), 1)

\* request r got as far as the key builder
KeyBuilt(r) == req[r].pc \in {"calling", "returned"} \/ Evaluated(r)

\* the policy of the plugin test
IsTestPolicy(cfg) ==
    /\ cfg.from_headers = <<"x-user-id", "x-client-id">>
    /\ cfg.from_session_variables = <<"user.id">>

TestKey ==
    "x-user-id:test-user-123:x-client-id:test-client-456:user.id:test-user-123"

SameConfiguredValues(a, b) ==
    /\ \A i \in 1..Len(config.from_headers) :
         FieldValue(req[a].headers, config.from_headers[i])
           = FieldValue(req[b].headers, config.from_headers[i])
    /\ \A i \in 1..Len(config.from_session_variables) :
         FieldValue(req[a].session.variables, config.from_session_variables[i])
           = FieldValue(req[b].session.variables,
                        config.from_session_variables[i])

C19_KeyDistinctness ==
    \A a, b \in Requests :
        (KeyBuilt(a) /\ KeyBuilt(b) /\ ~SameConfiguredValues(a, b))
        => req[a].key # req[b].key

(***************************************************************************)
(* C20: after a request with session role R is evaluated and admitted,     *)
(* the store holds its entry under the key "role:R:" followed by the       *)
(* configured header parts and session-variable parts.                     *)
(***************************************************************************)
C20_RoleInKey ==
    \A r \in Requests :
        Recorded(r)
        => LET k == "role:" \o req[r].role \o ":"
                      \o DescribedKey(config, req[r].session, req[r].headers)
           IN  /\ req[r].key = k
               /\ k \in DOMAIN zset

(***************************************************************************)
(* C21: when both lists of key fields are empty, every request that        *)
(* reaches the key builder gets one and the same key, whatever its         *)
(* headers and session, and the requests admitted under it, all clients    *)
(* together, whose timestamp lies in (t - window, t] number at most        *)
(* `limit', for every t.                                                   *)
(***************************************************************************)
C21_GlobalQuota ==
    /\ \A a, b \in Requests :
          (KeyBuilt(a) /\ KeyBuilt(b)) => req[a].key = req[b].key
    /\ \A t \in Times :
          Cardinality({r \in Requests : /\ Recorded(r)
                                        /\ t - Window < req[r].now
                                        /\ req[r].now <= t}) <= Limit

(***************************************************************************)
(* C23: with the store unavailable and fallback_mode deny, handleRequest   *)
(* returns statusCode 503 with extensions.code REDIS_UNAVAILABLE.          *)
(***************************************************************************)
C23_UnavailableDenyIs503 ==
    \A r \in Requests :
        ( /\ Done(r)
          /\ req[r].seen # "ready"
          /\ config.fallback_mode = "deny" )
        => /\ req[r].statusCode = 503
           /\ req[r].code = "REDIS_UNAVAILABLE"

(***************************************************************************)
(* C24: in every state of the store every key holds at most limit          *)
(* entries, and the count a script returns lies in 0..limit.               *)
(***************************************************************************)
C24_AtMostLimitEntries ==
    /\ \A k \in DOMAIN zset : Cardinality(zset[k]) <= Limit
    /\ \A r \in Requests :
          Evaluated(r) => (req[r].result >= 0 /\ req[r].result <= Limit)

\* a key is full and a call that found it full was denied
C24_Witness ==
    \E r \in Requests :
        /\ Denied(r)
        /\ req[r].result = Limit
        /\ Cardinality(zset[req[r].key]) = Limit

C26_AdmittedAddsOne ==
    [][\A r \in Requests :
         ( /\ req[r].pc = "calling"
           /\ req'[r].pc = "returned"
           /\ req'[r].result < Limit )
         => LET k == req[r].key
            IN  /\ Cardinality(zset'[k] \ zset[k]) = 1
                /\ Cardinality(zset'[k])
                     = Cardinality({e \in zset[k] :
                                      e.score > req[r].windowStart}) + 1]_vars

\* two requests admitted with the same timestamp, both entries in the key
C26_Witness ==
    \E a, b \in Requests :
        /\ a # b
        /\ Recorded(a) /\ Recorded(b)
        /\ req[a].key = req[b].key
        /\ req[a].now = req[b].now
        /\ Cardinality({e \in zset[req[a].key] : e.score = req[a].now}) = 2

(***************************************************************************)
(* C27: denied calls do not hold a window open: when the key holds limit   *)
(* entries, a call whose time is at least the timestamp of the oldest      *)
(* entry plus window_seconds is admitted and its entry inserted, whatever  *)
(* calls were denied in between.                                           *)
(***************************************************************************)
OldestScore(z) == CHOOSE t \in {e.score : e \in z} : \A e \in z : t <= e.score

C27_DeniedHoldNothingOpen ==
    [][( /\ Len(trace') = Len(trace) + 1
         /\ Cardinality(zset[ScriptKey]) = Limit
         /\ trace'[Len(trace')].now >= OldestScore(zset[ScriptKey]) + Window )
       => /\ trace'[Len(trace')].result < Limit
          /\ [member |-> Len(trace'), score |-> trace'[Len(trace')].now]
                \in zset'[ScriptKey]]_vars

\* the key filled, calls denied, then a call admitted one window after
\* the oldest entry
C27_Witness ==
    \E i, j, m \in 1..Len(trace) :
        /\ i < j /\ j < m
        /\ \A n \in 1..i : trace[n].result < Limit
        /\ trace[i].result = Limit - 1
        /\ \A n \in (i + 1)..(m - 1) : trace[n].result = Limit
        /\ trace[m].now >= trace[1].now + Window
        /\ \A n \in 1..i : trace[1].now <= trace[n].now
        /\ trace[m].result < Limit
        /\ \E e \in zset[ScriptKey] : e.member = m

(***************************************************************************)
(* C28: every key that holds an entry has a time-to-live, the one set by   *)
(* the last run of the script that admitted a request of the key:          *)
(* window_seconds from the second of that run.  The key does not outlive   *)
(* it: without another admitted request the store removes the key          *)
(* window_seconds after the last one.                                      *)
(***************************************************************************)
AdmittedOn(k) == {r \in Requests : Recorded(r) /\ req[r].key = k}

C28_ExpirySet ==
    \A k \in DOMAIN zset :
        zset[k] # {}
        => /\ expireAt[k] # NoTTL
           /\ clock <= expireAt[k]
           /\ \E r \in AdmittedOn(k) :
                 /\ \A q \in AdmittedOn(k) : req[q].at <= req[r].at
                 /\ expireAt[k] = req[r].at + Window

\* a second admitted request moved the expiry of a key that still held
\* the entry of the first
C28_Witness ==
    \E q, r \in Requests :
        /\ Recorded(q) /\ Recorded(r)
        /\ req[q].key = req[r].key
        /\ req[q].at < req[r].at
        /\ Cardinality(zset[req[r].key]) = 2
        /\ expireAt[req[r].key] = req[r].at + Window
        /\ clock = expireAt[req[r].key]

(***************************************************************************)
(* C29: the expiry of keys cannot be observed when the calls follow the    *)
(* store's clock.  If every script of a key so far ran in the second its   *)
(* `now' names, it returns the count a log that never expires would hold:  *)
(* the requests admitted before it whose timestamp is > now - window; and  *)
(* the request is answered accordingly.                                    *)
(***************************************************************************)
FollowsClock(r) ==
    \A q \in Requests :
        ( /\ Evaluated(q)
          /\ req[q].key = req[r].key
          /\ req[q].ord <= req[r].ord )
        => req[q].at = req[q].now

NeverExpiringCount(r) ==
    Cardinality({q \in AdmittedBefore(r) : req[q].now > req[r].now - Window})

C29_ExpiryUnobservable ==
    \A r \in Requests :
        (Evaluated(r) /\ FollowsClock(r))
        => /\ req[r].result = NeverExpiringCount(r)
           /\ Done(r) => (Allowed(r) <=> NeverExpiringCount(r) < Limit)

\* the store had removed the key of an admitted request when the next
\* script ran
C29_Witness ==
    \E r \in Requests :
        /\ Done(r)
        /\ Evaluated(r)
        /\ FollowsClock(r)
        /\ AdmittedBefore(r) # {}
        /\ req[r].raw = 0

(***************************************************************************)
(* C30: right after a run of the script at time `now', admitting or        *)
(* denying, every entry left under the key has a timestamp t with          *)
(* now - window_seconds < t <= now, provided the `now' of the scripts run  *)
(* on that key so far, this one included, never decreased.                 *)
(***************************************************************************)
C30_EntriesInWindow ==
    [][\A r \in Requests :
         ( /\ req[r].pc = "calling"
           /\ req'[r].pc = "returned"
           /\ \A p, q \in Requests :
                 ( /\ req'[p].ord > 0 /\ req'[q].ord > 0
                   /\ req'[p].key = req[r].key /\ req'[q].key = req[r].key
                   /\ req'[p].ord <= req'[q].ord )
                 => req'[p].now <= req'[q].now )
         => \A e \in zset'[req[r].key] :
               /\ req[r].now - Window < e.score
               /\ e.score <= req[r].now]_vars

\* a script that has just run at a later `now' left the entry of an
\* earlier request in place beside that of its own
C30_Witness ==
    \E q, r \in Requests :
        /\ req[r].pc = "returned"
        /\ Recorded(q) /\ Recorded(r)
        /\ req[q].key = req[r].key
        /\ req[q].ord < req[r].ord
        /\ req[q].now < req[r].now
        /\ zset[req[r].key] =
             {[member |-> uniqueRequestId(q), score |-> req[q].now],
              [member |-> uniqueRequestId(r), score |-> req[r].now]}

(***************************************************************************)
(* C31: runs of the script on different keys are independent.  A run on    *)
(* one key leaves the entries and the expiry of every other key as they    *)
(* were; and for two pending calls on different keys, running them in      *)
(* either order returns the same two counts and leaves the same store.     *)
(***************************************************************************)
\* the store call of request r run on the store st
EvalOf(st, r) ==
    EVAL(st.zset, st.expireAt, req[r].key, config.default_limit, req[r].now,
         req[r].windowStart, config.time_window, uniqueRequestId(r), clock)

C31_Commute ==
    \A a, b \in Requests :
        ( /\ req[a].pc = "calling"
          /\ req[b].pc = "calling"
          /\ req[a].key # req[b].key )
        => LET st == [zset |-> zset, expireAt |-> expireAt]
               A  == EvalOf(st, a)
               AB == EvalOf(A, b)
               B  == EvalOf(st, b)
               BA == EvalOf(B, a)
           IN  /\ A.result = BA.result
               /\ B.result = AB.result
               /\ AB.zset = BA.zset
               /\ AB.expireAt = BA.expireAt

C31_KeysIndependent ==
    /\ []C31_Commute
    /\ [][\A r \in Requests :
            (req[r].pc = "calling" /\ req'[r].pc = "returned")
            => \A k \in DOMAIN zset \ {req[r].key} :
                  /\ zset'[k] = zset[k]
                  /\ expireAt'[k] = expireAt[k]]_vars

\* two requests on different keys, both recorded, the one handled second
\* evaluated first
C31_Witness ==
    \E a, b \in Requests :
        /\ a < b
        /\ Recorded(a) /\ Recorded(b)
        /\ req[a].key # req[b].key
        /\ req[b].ord < req[a].ord
        /\ zset[req[a].key] # {}
        /\ zset[req[b].key] # {}

(***************************************************************************)
(* C32: every invocation of handleRequest issues at most one store call:   *)
(* exactly one when the connection is ready, the role is not excluded and  *)
(* the key is built without an exception, none otherwise; a store call     *)
(* that fails is not issued again: the request is answered at once with    *)
(* the error response, the script never run for it.                        *)
(***************************************************************************)
FailedCallSurfaced(r) ==
    req[r].threw = "checkRateLimit"
    => /\ Done(r)
       /\ req[r].calls = 1
       /\ ~Evaluated(r)
       /\ req[r].statusCode = 500
       /\ req[r].code = "RATE_LIMIT_ERROR"

SameInputs(a, b) ==
    /\ req[a].session = req[b].session
    /\ req[a].headers = req[b].headers
    /\ req[a].seen = req[b].seen
    /\ (req[a].threw = "checkRateLimit") <=> (req[b].threw = "checkRateLimit")
    /\ Evaluated(a) <=> Evaluated(b)
    /\ Evaluated(a) => /\ req[a].now = req[b].now
                       /\ req[a].saw = req[b].saw

C33_Stateless ==
    \A a, b \in Requests :
        (Done(a) /\ Done(b) /\ SameInputs(a, b))
        => /\ req[a].statusCode = req[b].statusCode
           /\ req[a].code = req[b].code

\* the second of two like requests was evaluated after the first had been
\* admitted and recorded, on a key the store had emptied in between
C33_Witness ==
    \E a, b \in Requests :
        /\ a # b
        /\ Done(a) /\ Done(b)
        /\ SameInputs(a, b)
        /\ Recorded(a)
        /\ req[a].ord < req[b].ord
        /\ Allowed(b)

(***************************************************************************)
(* C34: every invocation of handleRequest completes, given that its store  *)
(* call, if one was issued, resolves or rejects; it completes with exactly *)
(* one of the four outcomes and keeps it, also when the connection is lost *)
(* between the check of its status and the store call.                     *)
(***************************************************************************)
Outcomes ==
    {[statusCode |-> 204, code |-> ""],
     [statusCode |-> 400, code |-> "RATE_LIMIT_EXCEEDED"],
     [statusCode |-> 500, code |-> "REDIS_UNAVAILABLE"],
     [statusCode |-> 500, code |-> "RATE_LIMIT_ERROR"]}

OutcomeOf(r) == [statusCode |-> req[r].statusCode, code |-> req[r].code]

C34_Completes ==
    /\ \A r \in Requests : (req[r].pc # "new") ~> Done(r)
    /\ [](\A r \in Requests : Done(r) => OutcomeOf(r) \in Outcomes)
    /\ [][\A r \in Requests : Done(r) => req'[r] = req[r]]_vars

\* a request answered although the connection it had seen ready was lost
\* while its call was pending, and has not come back
C34_Witness ==
    \E r \in Requests :
        /\ Done(r)
        /\ req[r].seen = "ready"
        /\ req[r].calls = 1
        /\ req[r].threw = "checkRateLimit"
        /\ status[req[r].inst] = "reconnecting"

(***************************************************************************)
(* C35: the key depends on the order of the configured fields: under a     *)
(* policy with two distinct names in a list of key fields, the key of      *)
(* every request differs from the key the policy with those two names      *)
(* swapped gives the same request.                                         *)
(***************************************************************************)
Swap(seq, i, j) ==
    [n \in DOMAIN seq |-> IF n = i THEN seq[j]
                          ELSE IF n = j THEN seq[i] ELSE seq[n]]

SwappedPolicies(cfg) ==
    {[cfg EXCEPT !.from_headers = Swap(@, i, j)] :
        i, j \in DOMAIN cfg.from_headers}
    \cup {[cfg EXCEPT !.from_session_variables = Swap(@, i, j)] :
        i, j \in DOMAIN cfg.from_session_variables}

C35_OrderSensitive ==
    \A r \in Requests :
        KeyBuilt(r)
        => \A other \in SwappedPolicies(config) \ {config} :
              buildRateLimitKey(other, req[r].session, req[r].headers)
                # req[r].key

(***************************************************************************)
(* C36: a POST /rate-limit whose header hasura-m-auth is not the           *)
(* configured value is answered 400 "Unauthorized request" by the          *)
(* middleware and never reaches handleRequest: it makes no store call, its *)
(* script is never run and no key holds an entry of it.                    *)
(***************************************************************************)
C36_UnauthenticatedRejected ==
    \A r \in Requests :
        ( /\ req[r].pc # "new"
          /\ ~( /\ "hasura-m-auth" \in DOMAIN req[r].headers
                /\ req[r].headers["hasura-m-auth"] = "your-auth-token" ) )
        => /\ req[r].pc = "rejected"
           /\ req[r].statusCode = 400
           /\ req[r].error = "Unauthorized request"
           /\ req[r].seen = ""
           /\ req[r].calls = 0
           /\ ~Evaluated(r)
           /\ \A k \in DOMAIN zset :
                 \A e \in zset[k] : e.member # uniqueRequestId(r)

\* a request with a wrong token rejected after an authenticated request
\* with the same session and key headers was admitted and recorded
C36_Witness ==
    \E q, r \in Requests :
        /\ q < r
        /\ Recorded(q)
        /\ Cardinality(zset[req[q].key]) = 1
        /\ req[r].pc = "rejected"
        /\ "hasura-m-auth" \in DOMAIN req[r].headers
        /\ req[r].headers["hasura-m-auth"] = "guess"
        /\ req[r].session = req[q].session
        /\ \A n \in DOMAIN req[q].headers \ {"hasura-m-auth"} :
              n \in DOMAIN req[r].headers
              /\ req[r].headers[n] = req[q].headers[n]

(***************************************************************************)
(* C22: every policy the constructor accepts has limit > 0 and             *)
(* window_seconds > 0: a value that is not positive is rejected when the   *)
(* policy is loaded, so the store evaluates no request under one.          *)
(***************************************************************************)
C22_PolicyPositive ==
    \A r \in Requests :
        Evaluated(r) => (config.default_limit > 0 /\ config.time_window > 0)

TypeOK ==
    /\ config \in Configs \cup ScriptConfigs \cup GlobalConfigs \cup KeyPolicies
    /\ clock \in 0..MaxTime
    /\ nextId \in 1..(MaxReqs + 1)
    /\ \A k \in DOMAIN zset :
         \A e \in zset[k] : e.member \in Nat /\ e.score \in Nat
====
